---- MODULE Spec2Model ----
(***************************************************************************)
(* Model of the VCD X-state checkers build/check_x_detailed.py and         *)
(* build/check_x_states.py.                                                *)
(*                                                                         *)
(* A Python str is modelled as the sequence of the code points of its      *)
(* characters, a dump as the sequence of its lines (content.split('\n')),  *)
(* a dict as the sequence of its entries in insertion order.               *)
(***************************************************************************)
EXTENDS Integers, Sequences, FiniteSets, TLC

VARIABLES
    content,        \* the lines of the dump being analysed (Spec), as text
    pc,             \* position of the program
    idx,            \* index of the next line / next signal of the running loop
    signals,        \* analyze_vcd_detailed: signals dict
    scope_stack,    \* analyze_vcd_detailed: scope_stack
    current_time,   \* analyze_vcd_detailed: current_time
    in_dumpvars,    \* analyze_vcd_detailed: in_dumpvars
    x_at_init,      \* check_test: x_at_init
    x_cleared,      \* check_test: x_cleared
    x_persistent,   \* check_test: x_persistent
    locals,         \* check_test: the locals of the loop iterations done so far
    prog,           \* which script runs (SpecBatch)
    fs,             \* the file at build_dir/test_case_1.vcd (SpecBatch, SpecRerun)
    produced,       \* what each test's simulation run wrote (SpecBatch, SpecRerun)
    results,        \* main: results / all_results, in TESTS order
    exit_code       \* main: the value returned to sys.exit

vars == <<content, pc, idx, signals, scope_stack, current_time, in_dumpvars,
          x_at_init, x_cleared, x_persistent, locals,
          prog, fs, produced, results, exit_code>>

batchVars == <<prog, fs, produced, results, exit_code>>

(***************************************************************************)
(* Python str primitives.  A character is its code point (ord).            *)
(***************************************************************************)
Range(s) == {s[i] : i \in 1..Len(s)}

\* the characters U+0020 to U+005F, in code point order
Chars20 ==
    <<
      " ", "!", "\"", "#", "$", "%", "&", "'", "(", ")", "*", "+", ",", "-",
      ".", "/", "0", "1", "2", "3", "4", "5", "6", "7", "8", "9", ":", ";",
      "<", "=", ">", "?", "@", "A", "B", "C", "D", "E", "F", "G", "H", "I",
      "J", "K", "L", "M", "N", "O", "P", "Q", "R", "S", "T", "U", "V", "W",
      "X", "Y", "Z", "[", "\\", "]", "^", "_"
    >>

\* the characters U+0061 to U+007E, in code point order
Chars61 ==
    <<
      "a", "b", "c", "d", "e", "f", "g", "h", "i", "j", "k", "l", "m", "n",
      "o", "p", "q", "r", "s", "t", "u", "v", "w", "x", "y", "z", "{", "|",
      "}", "~"
    >>

\* ord(c) of the characters the literals below are written with
Ord ==
    [c \in Range(Chars20) |-> 31 + (CHOOSE i \in 1..Len(Chars20) : Chars20[i] = c)]
    @@ [c \in Range(Chars61) |-> 96 + (CHOOSE i \in 1..Len(Chars61) : Chars61[i] = c)]
    @@ ("\n" :> 10)

\* the str written with these characters
Str(s) == [i \in 1..Len(s) |-> Ord[s[i]]]

\* the characters str.isspace holds for (those str.strip and str.split take as
\* whitespace and regex \s matches): U+0009 to U+000D, U+001C to U+0020,
\* U+0085, U+00A0, U+1680, U+2000 to U+200A, U+2028, U+2029, U+202F, U+205F,
\* U+3000
SpaceChars ==
    {9, 10, 11, 12, 13, 28, 29, 30, 31, 32, 133, 160, 5760}
    \cup (8192..8202) \cup {8232, 8233, 8239, 8287, 12288}

IsSpace(c) == c \in SpaceChars

\* the whitespace int() strips: that of str.isspace but U+001C to U+001F
IntSpaceChars == SpaceChars \ (28..31)

IsIntSpace(c) == c \in IntSpaceChars

\* the digit zero of every decimal digit system of Unicode 14 (category Nd);
\* the digits one to nine follow it
DigitZeros ==
    {
      48, 1632, 1776, 1984, 2406, 2534, 2662, 2790, 2918, 3046, 3174, 3302,
      3430, 3558, 3664, 3792, 3872, 4160, 4240, 6112, 6160, 6470, 6608, 6784,
      6800, 6992, 7088, 7232, 7248, 42528, 43216, 43264, 43472, 43504, 43600,
      44016, 65296, 66720, 68912, 69734, 69872, 69942, 70096, 70384, 70736,
      70864, 71248, 71360, 71472, 71904, 72016, 72784, 73040, 73120, 92768,
      92864, 93008, 120782, 120792, 120802, 120812, 120822, 123200, 123632,
      125264, 130032
    }

\* regex \d, and the digits int() takes
IsDigit(c) == \E z \in DigitZeros : z <= c /\ c <= z + 9

\* the value int() gives the digit
DigitVal(c) == c - (CHOOSE z \in DigitZeros : z <= c /\ c <= z + 9)

\* the characters regex \w matches, those str.isalnum holds for in Unicode 14
\* and the underscore, as the ranges they make: first and last character of
\* the first range, of the second, and so on; here those below U+0080
\* (digits, capitals, underscore, small letters)
WordRangesAscii == <<48, 57, 65, 90, 95, 95, 97, 122>>

\* the ranges of the \w characters from U+0080 on
WordRanges ==
    <<
      170, 170, 178, 179, 181, 181, 185, 186, 188, 190, 192, 214, 216, 246,
      248, 705, 710, 721, 736, 740, 748, 748, 750, 750, 880, 884, 886, 887,
      890, 893, 895, 895, 902, 902, 904, 906, 908, 908, 910, 929, 931, 1013,
      1015, 1153, 1162, 1327, 1329, 1366, 1369, 1369, 1376, 1416, 1488, 1514,
      1519, 1522, 1568, 1610, 1632, 1641, 1646, 1647, 1649, 1747, 1749, 1749,
      1765, 1766, 1774, 1788, 1791, 1791, 1808, 1808, 1810, 1839, 1869, 1957,
      1969, 1969, 1984, 2026, 2036, 2037, 2042, 2042, 2048, 2069, 2074, 2074,
      2084, 2084, 2088, 2088, 2112, 2136, 2144, 2154, 2160, 2183, 2185, 2190,
      2208, 2249, 2308, 2361, 2365, 2365, 2384, 2384, 2392, 2401, 2406, 2415,
      2417, 2432, 2437, 2444, 2447, 2448, 2451, 2472, 2474, 2480, 2482, 2482,
      2486, 2489, 2493, 2493, 2510, 2510, 2524, 2525, 2527, 2529, 2534, 2545,
      2548, 2553, 2556, 2556, 2565, 2570, 2575, 2576, 2579, 2600, 2602, 2608,
      2610, 2611, 2613, 2614, 2616, 2617, 2649, 2652, 2654, 2654, 2662, 2671,
      2674, 2676, 2693, 2701, 2703, 2705, 2707, 2728, 2730, 2736, 2738, 2739,
      2741, 2745, 2749, 2749, 2768, 2768, 2784, 2785, 2790, 2799, 2809, 2809,
      2821, 2828, 2831, 2832, 2835, 2856, 2858, 2864, 2866, 2867, 2869, 2873,
      2877, 2877, 2908, 2909, 2911, 2913, 2918, 2927, 2929, 2935, 2947, 2947,
      2949, 2954, 2958, 2960, 2962, 2965, 2969, 2970, 2972, 2972, 2974, 2975,
      2979, 2980, 2984, 2986, 2990, 3001, 3024, 3024, 3046, 3058, 3077, 3084,
      3086, 3088, 3090, 3112, 3114, 3129, 3133, 3133, 3160, 3162, 3165, 3165,
      3168, 3169, 3174, 3183, 3192, 3198, 3200, 3200, 3205, 3212, 3214, 3216,
      3218, 3240, 3242, 3251, 3253, 3257, 3261, 3261, 3293, 3294, 3296, 3297,
      3302, 3311, 3313, 3314, 3332, 3340, 3342, 3344, 3346, 3386, 3389, 3389,
      3406, 3406, 3412, 3414, 3416, 3425, 3430, 3448, 3450, 3455, 3461, 3478,
      3482, 3505, 3507, 3515, 3517, 3517, 3520, 3526, 3558, 3567, 3585, 3632,
      3634, 3635, 3648, 3654, 3664, 3673, 3713, 3714, 3716, 3716, 3718, 3722,
      3724, 3747, 3749, 3749, 3751, 3760, 3762, 3763, 3773, 3773, 3776, 3780,
      3782, 3782, 3792, 3801, 3804, 3807, 3840, 3840, 3872, 3891, 3904, 3911,
      3913, 3948, 3976, 3980, 4096, 4138, 4159, 4169, 4176, 4181, 4186, 4189,
      4193, 4193, 4197, 4198, 4206, 4208, 4213, 4225, 4238, 4238, 4240, 4249,
      4256, 4293, 4295, 4295, 4301, 4301, 4304, 4346, 4348, 4680, 4682, 4685,
      4688, 4694, 4696, 4696, 4698, 4701, 4704, 4744, 4746, 4749, 4752, 4784,
      4786, 4789, 4792, 4798, 4800, 4800, 4802, 4805, 4808, 4822, 4824, 4880,
      4882, 4885, 4888, 4954, 4969, 4988, 4992, 5007, 5024, 5109, 5112, 5117,
      5121, 5740, 5743, 5759, 5761, 5786, 5792, 5866, 5870, 5880, 5888, 5905,
      5919, 5937, 5952, 5969, 5984, 5996, 5998, 6000, 6016, 6067, 6103, 6103,
      6108, 6108, 6112, 6121, 6128, 6137, 6160, 6169, 6176, 6264, 6272, 6276,
      6279, 6312, 6314, 6314, 6320, 6389, 6400, 6430, 6470, 6509, 6512, 6516,
      6528, 6571, 6576, 6601, 6608, 6618, 6656, 6678, 6688, 6740, 6784, 6793,
      6800, 6809, 6823, 6823, 6917, 6963, 6981, 6988, 6992, 7001, 7043, 7072,
      7086, 7141, 7168, 7203, 7232, 7241, 7245, 7293, 7296, 7304, 7312, 7354,
      7357, 7359, 7401, 7404, 7406, 7411, 7413, 7414, 7418, 7418, 7424, 7615,
      7680, 7957, 7960, 7965, 7968, 8005, 8008, 8013, 8016, 8023, 8025, 8025,
      8027, 8027, 8029, 8029, 8031, 8061, 8064, 8116, 8118, 8124, 8126, 8126,
      8130, 8132, 8134, 8140, 8144, 8147, 8150, 8155, 8160, 8172, 8178, 8180,
      8182, 8188, 8304, 8305, 8308, 8313, 8319, 8329, 8336, 8348, 8450, 8450,
      8455, 8455, 8458, 8467, 8469, 8469, 8473, 8477, 8484, 8484, 8486, 8486,
      8488, 8488, 8490, 8493, 8495, 8505, 8508, 8511, 8517, 8521, 8526, 8526,
      8528, 8585, 9312, 9371, 9450, 9471, 10102, 10131, 11264, 11492, 11499,
      11502, 11506, 11507, 11517, 11517, 11520, 11557, 11559, 11559, 11565,
      11565, 11568, 11623, 11631, 11631, 11648, 11670, 11680, 11686, 11688,
      11694, 11696, 11702, 11704, 11710, 11712, 11718, 11720, 11726, 11728,
      11734, 11736, 11742, 11823, 11823, 12293, 12295, 12321, 12329, 12337,
      12341, 12344, 12348, 12353, 12438, 12445, 12447, 12449, 12538, 12540,
      12543, 12549, 12591, 12593, 12686, 12690, 12693, 12704, 12735, 12784,
      12799, 12832, 12841, 12872, 12879, 12881, 12895, 12928, 12937, 12977,
      12991, 13312, 19903, 19968, 42124, 42192, 42237, 42240, 42508, 42512,
      42539, 42560, 42606, 42623, 42653, 42656, 42735, 42775, 42783, 42786,
      42888, 42891, 42954, 42960, 42961, 42963, 42963, 42965, 42969, 42994,
      43009, 43011, 43013, 43015, 43018, 43020, 43042, 43056, 43061, 43072,
      43123, 43138, 43187, 43216, 43225, 43250, 43255, 43259, 43259, 43261,
      43262, 43264, 43301, 43312, 43334, 43360, 43388, 43396, 43442, 43471,
      43481, 43488, 43492, 43494, 43518, 43520, 43560, 43584, 43586, 43588,
      43595, 43600, 43609, 43616, 43638, 43642, 43642, 43646, 43695, 43697,
      43697, 43701, 43702, 43705, 43709, 43712, 43712, 43714, 43714, 43739,
      43741, 43744, 43754, 43762, 43764, 43777, 43782, 43785, 43790, 43793,
      43798, 43808, 43814, 43816, 43822, 43824, 43866, 43868, 43881, 43888,
      44002, 44016, 44025, 44032, 55203, 55216, 55238, 55243, 55291, 63744,
      64109, 64112, 64217, 64256, 64262, 64275, 64279, 64285, 64285, 64287,
      64296, 64298, 64310, 64312, 64316, 64318, 64318, 64320, 64321, 64323,
      64324, 64326, 64433, 64467, 64829, 64848, 64911, 64914, 64967, 65008,
      65019, 65136, 65140, 65142, 65276, 65296, 65305, 65313, 65338, 65345,
      65370, 65382, 65470, 65474, 65479, 65482, 65487, 65490, 65495, 65498,
      65500, 65536, 65547, 65549, 65574, 65576, 65594, 65596, 65597, 65599,
      65613, 65616, 65629, 65664, 65786, 65799, 65843, 65856, 65912, 65930,
      65931, 66176, 66204, 66208, 66256, 66273, 66299, 66304, 66339, 66349,
      66378, 66384, 66421, 66432, 66461, 66464, 66499, 66504, 66511, 66513,
      66517, 66560, 66717, 66720, 66729, 66736, 66771, 66776, 66811, 66816,
      66855, 66864, 66915, 66928, 66938, 66940, 66954, 66956, 66962, 66964,
      66965, 66967, 66977, 66979, 66993, 66995, 67001, 67003, 67004, 67072,
      67382, 67392, 67413, 67424, 67431, 67456, 67461, 67463, 67504, 67506,
      67514, 67584, 67589, 67592, 67592, 67594, 67637, 67639, 67640, 67644,
      67644, 67647, 67669, 67672, 67702, 67705, 67742, 67751, 67759, 67808,
      67826, 67828, 67829, 67835, 67867, 67872, 67897, 67968, 68023, 68028,
      68047, 68050, 68096, 68112, 68115, 68117, 68119, 68121, 68149, 68160,
      68168, 68192, 68222, 68224, 68255, 68288, 68295, 68297, 68324, 68331,
      68335, 68352, 68405, 68416, 68437, 68440, 68466, 68472, 68497, 68521,
      68527, 68608, 68680, 68736, 68786, 68800, 68850, 68858, 68899, 68912,
      68921, 69216, 69246, 69248, 69289, 69296, 69297, 69376, 69415, 69424,
      69445, 69457, 69460, 69488, 69505, 69552, 69579, 69600, 69622, 69635,
      69687, 69714, 69743, 69745, 69746, 69749, 69749, 69763, 69807, 69840,
      69864, 69872, 69881, 69891, 69926, 69942, 69951, 69956, 69956, 69959,
      69959, 69968, 70002, 70006, 70006, 70019, 70066, 70081, 70084, 70096,
      70106, 70108, 70108, 70113, 70132, 70144, 70161, 70163, 70187, 70272,
      70278, 70280, 70280, 70282, 70285, 70287, 70301, 70303, 70312, 70320,
      70366, 70384, 70393, 70405, 70412, 70415, 70416, 70419, 70440, 70442,
      70448, 70450, 70451, 70453, 70457, 70461, 70461, 70480, 70480, 70493,
      70497, 70656, 70708, 70727, 70730, 70736, 70745, 70751, 70753, 70784,
      70831, 70852, 70853, 70855, 70855, 70864, 70873, 71040, 71086, 71128,
      71131, 71168, 71215, 71236, 71236, 71248, 71257, 71296, 71338, 71352,
      71352, 71360, 71369, 71424, 71450, 71472, 71483, 71488, 71494, 71680,
      71723, 71840, 71922, 71935, 71942, 71945, 71945, 71948, 71955, 71957,
      71958, 71960, 71983, 71999, 71999, 72001, 72001, 72016, 72025, 72096,
      72103, 72106, 72144, 72161, 72161, 72163, 72163, 72192, 72192, 72203,
      72242, 72250, 72250, 72272, 72272, 72284, 72329, 72349, 72349, 72368,
      72440, 72704, 72712, 72714, 72750, 72768, 72768, 72784, 72812, 72818,
      72847, 72960, 72966, 72968, 72969, 72971, 73008, 73030, 73030, 73040,
      73049, 73056, 73061, 73063, 73064, 73066, 73097, 73112, 73112, 73120,
      73129, 73440, 73458, 73648, 73648, 73664, 73684, 73728, 74649, 74752,
      74862, 74880, 75075, 77712, 77808, 77824, 78894, 82944, 83526, 92160,
      92728, 92736, 92766, 92768, 92777, 92784, 92862, 92864, 92873, 92880,
      92909, 92928, 92975, 92992, 92995, 93008, 93017, 93019, 93025, 93027,
      93047, 93053, 93071, 93760, 93846, 93952, 94026, 94032, 94032, 94099,
      94111, 94176, 94177, 94179, 94179, 94208, 100343, 100352, 101589,
      101632, 101640, 110576, 110579, 110581, 110587, 110589, 110590, 110592,
      110882, 110928, 110930, 110948, 110951, 110960, 111355, 113664, 113770,
      113776, 113788, 113792, 113800, 113808, 113817, 119520, 119539, 119648,
      119672, 119808, 119892, 119894, 119964, 119966, 119967, 119970, 119970,
      119973, 119974, 119977, 119980, 119982, 119993, 119995, 119995, 119997,
      120003, 120005, 120069, 120071, 120074, 120077, 120084, 120086, 120092,
      120094, 120121, 120123, 120126, 120128, 120132, 120134, 120134, 120138,
      120144, 120146, 120485, 120488, 120512, 120514, 120538, 120540, 120570,
      120572, 120596, 120598, 120628, 120630, 120654, 120656, 120686, 120688,
      120712, 120714, 120744, 120746, 120770, 120772, 120779, 120782, 120831,
      122624, 122654, 123136, 123180, 123191, 123197, 123200, 123209, 123214,
      123214, 123536, 123565, 123584, 123627, 123632, 123641, 124896, 124902,
      124904, 124907, 124909, 124910, 124912, 124926, 124928, 125124, 125127,
      125135, 125184, 125251, 125259, 125259, 125264, 125273, 126065, 126123,
      126125, 126127, 126129, 126132, 126209, 126253, 126255, 126269, 126464,
      126467, 126469, 126495, 126497, 126498, 126500, 126500, 126503, 126503,
      126505, 126514, 126516, 126519, 126521, 126521, 126523, 126523, 126530,
      126530, 126535, 126535, 126537, 126537, 126539, 126539, 126541, 126543,
      126545, 126546, 126548, 126548, 126551, 126551, 126553, 126553, 126555,
      126555, 126557, 126557, 126559, 126559, 126561, 126562, 126564, 126564,
      126567, 126570, 126572, 126578, 126580, 126583, 126585, 126588, 126590,
      126590, 126592, 126601, 126603, 126619, 126625, 126627, 126629, 126633,
      126635, 126651, 127232, 127244, 130032, 130041, 131072, 173791, 173824,
      177976, 177984, 178205, 178208, 183969, 183984, 191456, 194560, 195101,
      196608, 201546
    >>

\* c is in a range of r
InRanges(c, r) ==
    \E i \in 1..(Len(r) \div 2) : r[2 * i - 1] <= c /\ c <= r[2 * i]

\* regex \w
IsWord(c) ==
    IF c < 128 THEN InRanges(c, WordRangesAscii) ELSE InRanges(c, WordRanges)

\* s[i:] with a 0-based Python index i >= 0
From(s, i) == IF i >= Len(s) THEN <<>> ELSE SubSeq(s, i + 1, Len(s))

\* s.startswith(p)
StartsWith(s, p) == Len(s) >= Len(p) /\ SubSeq(s, 1, Len(p)) = p

\* sub in s
Contains(s, sub) ==
    \E i \in 0..(Len(s) - Len(sub)) : SubSeq(s, i + 1, i + Len(sub)) = sub

\* s.strip(): from the first to the last character that is no whitespace
Strip(s) ==
    LET keep == {i \in 1..Len(s) : ~IsSpace(s[i])}
    IN  IF keep = {} THEN <<>>
        ELSE SubSeq(s, CHOOSE i \in keep : \A j \in 1..(i - 1) : IsSpace(s[j]),
                       CHOOSE i \in keep : \A j \in (i + 1)..Len(s) : IsSpace(s[j]))

RECURSIVE SplitFrom(_, _)
\* the whitespace-separated words of s from position i on
SplitFrom(s, i) ==
    IF i > Len(s) THEN <<>>
    ELSE IF IsSpace(s[i]) THEN SplitFrom(s, i + 1)
    ELSE LET stops == {j \in i..Len(s) : IsSpace(s[j])}
             e == IF stops = {} THEN Len(s) + 1
                  ELSE CHOOSE j \in stops : \A k \in stops : j <= k
         IN  <<SubSeq(s, i, e - 1)>> \o SplitFrom(s, e)

\* s.split()
Split(s) == SplitFrom(s, 1)

ChDot == Ord["."]
ChUnderscore == Ord["_"]
ChMinus == Ord["-"]
ChPlus == Ord["+"]
ChNewline == Ord["\n"]

RECURSIVE JoinDot(_)
\* '.'.join(parts)
JoinDot(parts) ==
    IF parts = <<>> THEN <<>>
    ELSE IF Len(parts) = 1 THEN parts[1]
    ELSE parts[1] \o <<ChDot>> \o JoinDot(Tail(parts))

RECURSIVE DigitsValue(_, _)
\* the decimal value of the digits of s, underscores skipped
DigitsValue(s, acc) ==
    IF s = <<>> THEN acc
    ELSE IF s[1] = ChUnderscore THEN DigitsValue(Tail(s), acc)
    ELSE DigitsValue(Tail(s), 10 * acc + DigitVal(s[1]))

\* the most digits int() converts (sys.get_int_max_str_digits() as Python
\* starts); it raises ValueError on more
MaxStrDigits == 4300

\* the number of digits of s, leading zeros included
DigitCount(s) == Cardinality({i \in 1..Len(s) : IsDigit(s[i])})

\* s without the leading and trailing whitespace int() skips
IntStrip(s) ==
    LET keep == {i \in 1..Len(s) : ~IsIntSpace(s[i])}
    IN  IF keep = {} THEN <<>>
        ELSE SubSeq(s, CHOOSE i \in keep : \A j \in 1..(i - 1) : IsIntSpace(s[j]),
                       CHOOSE i \in keep : \A j \in (i + 1)..Len(s) : IsIntSpace(s[j]))

\* int(s): [ok |-> whether int() returns, val |-> its value]
PyInt(s) ==
    LET t    == IntStrip(s)
        neg  == t # <<>> /\ t[1] = ChMinus
        body == IF t # <<>> /\ t[1] \in {ChPlus, ChMinus} THEN Tail(t) ELSE t
        ok   == /\ body # <<>>
                /\ \A i \in 1..Len(body) : IsDigit(body[i]) \/ body[i] = ChUnderscore
                /\ IsDigit(body[1]) /\ IsDigit(body[Len(body)])
                /\ \A i \in 1..(Len(body) - 1) :
                       ~(body[i] = ChUnderscore /\ body[i + 1] = ChUnderscore)
                /\ DigitCount(body) <= MaxStrDigits
    IN  IF ok
        THEN [ok |-> TRUE, val |-> IF neg THEN 0 - DigitsValue(body, 0) ELSE DigitsValue(body, 0)]
        ELSE [ok |-> FALSE, val |-> 0]

(***************************************************************************)
(* dict primitives: a dict is the sequence of its entries, each with a     *)
(* field id, in insertion order.                                           *)
(***************************************************************************)
\* key in d
HasKey(d, k) == \E i \in 1..Len(d) : d[i].id = k

KeyIndex(d, k) == CHOOSE i \in 1..Len(d) : d[i].id = k

\* d[k] = entry
DictSet(d, entry) ==
    IF HasKey(d, entry.id) THEN [d EXCEPT ![KeyIndex(d, entry.id)] = entry]
    ELSE Append(d, entry)

(***************************************************************************)
(* Literals of the scripts.                                                *)
(***************************************************************************)
KwScope    == Str(<<"$", "s", "c", "o", "p", "e">>)
KwUpscope  == Str(<<"$", "u", "p", "s", "c", "o", "p", "e">>)
KwVar      == Str(<<"$", "v", "a", "r">>)
KwDumpvars == Str(<<"$", "d", "u", "m", "p", "v", "a", "r", "s">>)
KwEnd      == Str(<<"$", "e", "n", "d">>)
StrDUT     == Str(<<"D", "U", "T">>)
StrAsyncFifo == Str(<<"a", "s", "y", "n", "c", "_", "f", "i", "f", "o">>)
StrHash    == Str(<<"#">>)
StrDollar  == Str(<<"$">>)
StrSmallB  == Str(<<"b">>)
StrCapitalB == Str(<<"B">>)

\* Time thresholds (in ps) of check_test
RESET_RELEASE == 300000
POST_RESET == 500000
\* reset_release_time of run_test_and_check
STATES_RESET_RELEASE == 500000

(***************************************************************************)
(* analyze_vcd_detailed                                                    *)
(***************************************************************************)
\* re.match(r'\$var\s+\w+\s+(\d+)\s+(\S+)\s+(\S+)', line) on a stripped line,
\* and int(match.group(1)): [ok, raises, width, sig_id, sig_name], raises
\* telling that int() raises ValueError (more than MaxStrDigits digits)
VarMatch(line) ==
    LET parts == Split(line)
        ok == /\ Len(parts) >= 5
              /\ parts[1] = KwVar
              /\ \A i \in 1..Len(parts[2]) : IsWord(parts[2][i])
              /\ \A i \in 1..Len(parts[3]) : IsDigit(parts[3][i])
        width == PyInt(parts[3])
    IN  IF ok
        THEN [ok |-> TRUE, raises |-> ~width.ok, width |-> width.val,
              sig_id |-> parts[4], sig_name |-> parts[5]]
        ELSE [ok |-> FALSE, raises |-> FALSE, width |-> 0,
              sig_id |-> <<>>, sig_name |-> <<>>]

\* HeaderStep with no pop at $upscope
HeaderStepNoPop(st, raw) ==
    LET line == Strip(raw)
        parts == Split(line)
        m == VarMatch(line)
    IN  IF StartsWith(line, KwScope)
        THEN IF Len(parts) >= 3
             THEN [st EXCEPT !.scope_stack = Append(@, parts[3])]
             ELSE st
        ELSE IF StartsWith(line, KwUpscope)
        THEN st
        ELSE IF StartsWith(line, KwVar) /\ m.ok
        THEN IF m.raises
             THEN [st EXCEPT !.raised = TRUE]
             ELSE [st EXCEPT !.signals =
                      DictSet(@, [id |-> m.sig_id,
                                  name |-> JoinDot(Append(st.scope_stack, m.sig_name)),
                                  width |-> m.width,
                                  values |-> <<>>])]
        ELSE st

\* one iteration of the first loop: st = [signals, scope_stack, raised], raised
\* telling that the ValueError of int() ends the loop, and the script
HeaderStep(st, raw) ==
    LET line == Strip(raw)
        parts == Split(line)
        m == VarMatch(line)
    IN  IF StartsWith(line, KwScope)
        THEN IF Len(parts) >= 3
             THEN [st EXCEPT !.scope_stack = Append(@, parts[3])]
             ELSE st
        ELSE IF StartsWith(line, KwUpscope)
        THEN IF st.scope_stack # <<>>
             THEN [st EXCEPT !.scope_stack = SubSeq(@, 1, Len(@) - 1)]
             ELSE st
        ELSE IF StartsWith(line, KwVar) /\ m.ok
        THEN IF m.raises
             THEN [st EXCEPT !.raised = TRUE]
             ELSE [st EXCEPT !.signals =
                      DictSet(@, [id |-> m.sig_id,
                                  name |-> JoinDot(Append(st.scope_stack, m.sig_name)),
                                  width |-> m.width,
                                  values |-> <<>>])]
        ELSE st

\* AppendValue without the test "sig_id in signals": an unknown id gets an entry
AppendValueSetDefault(sigs, sig_id, time, value) ==
    IF HasKey(sigs, sig_id)
    THEN [sigs EXCEPT ![KeyIndex(sigs, sig_id)].values =
             Append(@, [time |-> time, value |-> value])]
    ELSE Append(sigs, [id |-> sig_id, name |-> sig_id, width |-> 1,
                       values |-> <<[time |-> time, value |-> value]>>])

\* signals[sig_id]['values'].append((current_time, value)) if sig_id in signals
AppendValue(sigs, sig_id, time, value) ==
    IF HasKey(sigs, sig_id)
    THEN [sigs EXCEPT ![KeyIndex(sigs, sig_id)].values =
             Append(@, [time |-> time, value |-> value])]
    ELSE sigs

\* one iteration of the second loop: st = [signals, current_time, in_dumpvars]
ValueStep(st, raw) ==
    LET line == Strip(raw)
        parts == Split(line)
        t == PyInt(From(line, 1))
    IN  IF StartsWith(line, StrHash)
        THEN IF t.ok THEN [st EXCEPT !.current_time = t.val] ELSE st
        ELSE IF StartsWith(line, KwDumpvars)
        THEN [st EXCEPT !.in_dumpvars = TRUE]
        ELSE IF StartsWith(line, KwEnd) /\ st.in_dumpvars
        THEN [st EXCEPT !.in_dumpvars = FALSE]
        ELSE IF line # <<>> /\ ~StartsWith(line, StrDollar)
        THEN IF StartsWith(line, StrSmallB) \/ StartsWith(line, StrCapitalB)
             THEN IF Len(parts) >= 2
                  THEN [st EXCEPT !.signals =
                           AppendValue(@, parts[2], st.current_time, Tail(parts[1]))]
                  ELSE st
             ELSE IF Len(line) >= 2
             THEN [st EXCEPT !.signals =
                      AppendValue(@, Tail(line), st.current_time, <<line[1]>>)]
             ELSE st
        ELSE st

RECURSIVE HeaderLoop(_, _)
HeaderLoop(st, lines) ==
    IF lines = <<>> \/ st.raised THEN st
    ELSE HeaderLoop(HeaderStep(st, lines[1]), Tail(lines))

RECURSIVE ValueLoop(_, _)
ValueLoop(st, lines) ==
    IF lines = <<>> THEN st ELSE ValueLoop(ValueStep(st, lines[1]), Tail(lines))

\* analyze_vcd_detailed on an existing, readable file with these lines raises
\* ValueError: a $var line declares a width int() does not convert
AnalyzeRaises(lines) ==
    HeaderLoop([signals |-> <<>>, scope_stack |-> <<>>, raised |-> FALSE], lines).raised

\* what analyze_vcd_detailed returns on an existing, readable file with these
\* lines, when it returns
AnalyzeVcdDetailed(lines) ==
    LET h == HeaderLoop([signals |-> <<>>, scope_stack |-> <<>>, raised |-> FALSE],
                        lines)
    IN  ValueLoop([signals |-> h.signals, current_time |-> 0, in_dumpvars |-> FALSE],
                  lines).signals

(***************************************************************************)
(* check_test (check_x_detailed.py)                                        *)
(* None is <<>> and a value v that is not None is <<v>>.                   *)
(***************************************************************************)
\* the characters c with 'x' in c.lower(): x and X, and no other of Unicode
LowersToX == {Ord["x"], Ord["X"]}

\* 'x' in val.lower()
HasX(val) == \E i \in 1..Len(val) : val[i] \in LowersToX

\* the characters whose lower() is the character c of 'async_fifo': c and,
\* for a letter, its capital; no other character of Unicode has a lower()
\* that 'async_fifo' can run through
LowersTo(c) == IF Ord["a"] <= c /\ c <= Ord["z"] THEN {c, c - 32} ELSE {c}

\* 'async_fifo' in name.lower()
HasAsyncFifo(name) ==
    \E i \in 0..(Len(name) - Len(StrAsyncFifo)) :
        \A k \in 1..Len(StrAsyncFifo) : name[i + k] \in LowersTo(StrAsyncFifo[k])

\* SignalFilter with the second "not" of the skip condition left out
SignalFilterDroppedNot(name) ==
    ~(~Contains(name, StrDUT) /\ HasAsyncFifo(name))

\* the filter of check_test: TRUE iff the signal is not skipped
SignalFilter(name) ==
    ~(~Contains(name, StrDUT) /\ ~HasAsyncFifo(name))

\* HasXInit without .lower()
HasXInitCaseSensitive(values) ==
    LET init_val == values[1].value
    IN  IF init_val # <<>> THEN Contains(init_val, Str(<<"x">>)) ELSE FALSE

\* has_x_init of a non-empty values list
HasXInit(values) ==
    LET init_val == values[1].value
    IN  IF init_val # <<>> THEN HasX(init_val) ELSE FALSE

RECURSIVE LastBeforeReset(_, _)
\* the loop that finds last_before_reset, started with last_before_reset = acc
LastBeforeReset(values, acc) ==
    IF values = <<>> THEN acc
    ELSE IF values[1].time <= RESET_RELEASE
    THEN LastBeforeReset(Tail(values), <<values[1].value>>)
    ELSE acc

RECURSIVE FirstAfterResetRelease(_)
\* FirstAfterReset with RESET_RELEASE for POST_RESET
FirstAfterResetRelease(values) ==
    IF values = <<>> THEN <<>>
    ELSE IF values[1].time > RESET_RELEASE THEN <<values[1].value>>
    ELSE FirstAfterResetRelease(Tail(values))

RECURSIVE FirstAfterReset(_)
\* the loop that finds first_after_reset
FirstAfterReset(values) ==
    IF values = <<>> THEN <<>>
    ELSE IF values[1].time > POST_RESET THEN <<values[1].value>>
    ELSE FirstAfterReset(Tail(values))

RECURSIVE XPost(_)
\* the loop that finds has_x_post and x_post_time: <<>> if has_x_post stays
\* False, <<x_post_time>> otherwise
XPost(values) ==
    IF values = <<>> THEN <<>>
    ELSE IF values[1].time > RESET_RELEASE /\ HasX(values[1].value)
    THEN <<values[1].time>>
    ELSE XPost(Tail(values))

\* XCleared without "has_x_init and"
XClearedAnyInit(has_x_init, first_after_reset) ==
    /\ first_after_reset # <<>> /\ first_after_reset[1] # <<>>
    /\ ~HasX(first_after_reset[1])

\* has_x_init and first_after_reset and 'x' not in first_after_reset.lower()
XCleared(has_x_init, first_after_reset) ==
    /\ has_x_init
    /\ first_after_reset # <<>> /\ first_after_reset[1] # <<>>
    /\ ~HasX(first_after_reset[1])

\* one iteration of the loop over signals.items():
\* acc = [x_at_init, x_cleared, x_persistent, locals]
ClassifyStep(acc, sig) ==
    LET has_x_init == HasXInit(sig.values)
        first_after_reset == FirstAfterReset(sig.values)
        x_post == XPost(sig.values)
    IN  IF sig.values = <<>> THEN acc
        ELSE IF ~SignalFilter(sig.name) THEN acc
        ELSE [x_at_init |->
                 IF has_x_init THEN Append(acc.x_at_init, sig.name) ELSE acc.x_at_init,
              x_cleared |->
                 IF XCleared(has_x_init, first_after_reset)
                 THEN Append(acc.x_cleared, sig.name) ELSE acc.x_cleared,
              x_persistent |->
                 IF x_post # <<>>
                 THEN Append(acc.x_persistent, [name |-> sig.name, time |-> x_post[1]])
                 ELSE acc.x_persistent,
              locals |->
                 Append(acc.locals,
                        [sig_id |-> sig.id,
                         has_x_init |-> has_x_init,
                         last_before_reset |-> LastBeforeReset(sig.values, <<>>),
                         first_after_reset |-> first_after_reset,
                         x_post |-> x_post])]

RECURSIVE ClassifyLoop(_, _)
ClassifyLoop(acc, sigs) ==
    IF sigs = <<>> THEN acc ELSE ClassifyLoop(ClassifyStep(acc, sigs[1]), Tail(sigs))

\* return {'error': True}
ErrorResult ==
    [error |-> TRUE, x_at_init |-> 0, x_cleared |-> 0, x_persistent |-> <<>>]

\* return {'x_at_init': ..., 'x_cleared': ..., 'x_persistent': ...}
CheckResult(acc) ==
    [error |-> FALSE, x_at_init |-> Len(acc.x_at_init),
     x_cleared |-> Len(acc.x_cleared), x_persistent |-> acc.x_persistent]

\* the status main prints for one result in the final summary
DetailedStatus(result) ==
    IF result.error THEN "ERROR"
    ELSE IF result.x_persistent # <<>> THEN "FAIL"
    ELSE "PASS"

(***************************************************************************)
(* parse_vcd, find_x_after_reset (check_x_states.py)                       *)
(***************************************************************************)
RECURSIVE JoinLines(_)
\* the text whose split('\n') is lines
JoinLines(lines) ==
    IF Len(lines) = 1 THEN lines[1]
    ELSE lines[1] \o Str(<<"\n">>) \o JoinLines(Tail(lines))

\* the first position >= i of text that holds no whitespace (Len + 1 if none)
SkipSpace(text, i) ==
    IF i > Len(text) THEN Len(text) + 1
    ELSE CHOOSE j \in i..(Len(text) + 1) :
             /\ j > Len(text) \/ ~IsSpace(text[j])
             /\ \A k \in i..(j - 1) : IsSpace(text[k])

\* the first position >= i of text that holds whitespace (Len + 1 if none)
SkipNonSpace(text, i) ==
    IF i > Len(text) THEN Len(text) + 1
    ELSE CHOOSE j \in i..(Len(text) + 1) :
             /\ j > Len(text) \/ IsSpace(text[j])
             /\ \A k \in i..(j - 1) : ~IsSpace(text[k])

\* the first position >= i of text that holds no \w character
SkipWord(text, i) ==
    IF i > Len(text) THEN Len(text) + 1
    ELSE CHOOSE j \in i..(Len(text) + 1) :
             /\ j > Len(text) \/ ~IsWord(text[j])
             /\ \A k \in i..(j - 1) : IsWord(text[k])

\* the first position >= i of text that holds no \d character
SkipDigits(text, i) ==
    IF i > Len(text) THEN Len(text) + 1
    ELSE CHOOSE j \in i..(Len(text) + 1) :
             /\ j > Len(text) \/ ~IsDigit(text[j])
             /\ \A k \in i..(j - 1) : IsDigit(text[k])

SpaceAt(text, i) == i <= Len(text) /\ IsSpace(text[i])

\* var_pattern r'\$var\s+\w+\s+\d+\s+(\S+)\s+(\S+).*?\$end' matched at position i
\* of text: [ok, sig_id, sig_name, end] with end the position after the match.
\* Every \s+, \w+, \d+ and the first \S+ must take its whole run, each being
\* followed by a class its own characters are not in; the second \S+ gives
\* back characters until a '$end' follows it on the same line.
VarPatternAt(text, i) ==
    LET q1 == SkipSpace(text, i + 4)
        q2 == SkipWord(text, q1)
        q3 == SkipSpace(text, q2)
        q4 == SkipDigits(text, q3)
        q5 == SkipSpace(text, q4)
        q6 == SkipNonSpace(text, q5)
        q7 == SkipSpace(text, q6)
        q8 == SkipNonSpace(text, q7)
        nls == {j \in q7..Len(text) : text[j] = ChNewline}
        eol == IF nls = {} THEN Len(text) + 1 ELSE CHOOSE j \in nls : \A k \in nls : j <= k
        ends == {c \in (q7 + 1)..(eol - 4) : SubSeq(text, c, c + 3) = KwEnd}
        cmax == CHOOSE c \in ends : \A d \in ends : c >= d
        k == IF q8 - q7 <= cmax - q7 THEN q8 - q7 ELSE cmax - q7
        after == {c \in ends : c >= q7 + k}
        cend == CHOOSE c \in after : \A d \in after : c <= d
        ok == /\ i + 3 <= Len(text) /\ SubSeq(text, i, i + 3) = KwVar
              /\ SpaceAt(text, i + 4)
              /\ q2 > q1 /\ SpaceAt(text, q2)
              /\ q4 > q3 /\ SpaceAt(text, q4)
              /\ q6 > q5 /\ SpaceAt(text, q6)
              /\ q8 > q7
              /\ ends # {}
    IN  IF ok
        THEN [ok |-> TRUE, sig_id |-> SubSeq(text, q5, q6 - 1),
              sig_name |-> SubSeq(text, q7, q7 + k - 1), end |-> cend + 4]
        ELSE [ok |-> FALSE, sig_id |-> <<>>, sig_name |-> <<>>, end |-> i + 1]

RECURSIVE VarPatternLoop(_, _, _)
\* for match in re.finditer(var_pattern, content), from position i on: the scan
\* goes to the next '$var', and past the match if there is one there; the
\* dicts signals and values are one dict d of entries [id, name, values]
VarPatternLoop(text, i, d) ==
    LET starts == {j \in i..(Len(text) - 3) : SubSeq(text, j, j + 3) = KwVar}
        s == CHOOSE j \in starts : \A k \in starts : j <= k
        m == VarPatternAt(text, s)
    IN  IF starts = {} THEN d
        ELSE IF m.ok
        THEN VarPatternLoop(text, m.end,
                 DictSet(d, [id |-> m.sig_id, name |-> m.sig_name, values |-> <<>>]))
        ELSE VarPatternLoop(text, s + 1, d)

\* parse_vcd on an existing, readable file with these lines; its second loop is
\* the second loop of analyze_vcd_detailed
ParseVcd(lines) ==
    ValueLoop([signals |-> VarPatternLoop(JoinLines(lines), 1, <<>>),
               current_time |-> 0, in_dumpvars |-> FALSE], lines).signals

RECURSIVE FirstXFrom(_, _)
\* the inner loop of find_x_after_reset: <<>> or <<[time, value]>>
FirstXFrom(changes, reset_release_time) ==
    IF changes = <<>> THEN <<>>
    ELSE IF changes[1].time >= reset_release_time /\ HasX(changes[1].value)
    THEN <<changes[1]>>
    ELSE FirstXFrom(Tail(changes), reset_release_time)

RECURSIVE FindXAfterReset(_, _)
\* find_x_after_reset(signals, values, reset_release_time), d the two dicts
FindXAfterReset(d, reset_release_time) ==
    IF d = <<>> THEN <<>>
    ELSE LET hit == FirstXFrom(d[1].values, reset_release_time)
         IN  (IF hit = <<>> THEN <<>>
              ELSE <<[name |-> d[1].name, time |-> hit[1].time, value |-> hit[1].value]>>)
             \o FindXAfterReset(Tail(d), reset_release_time)

(***************************************************************************)
(* Inputs: dump lines, and the dumps the specifications draw from.  In the *)
(* state a line is its text; the scripts work on its characters.           *)
(***************************************************************************)
\* the dump lines, as text
LnScopeDUT == "$scope module DUT $end"
LnScopeDutLower == "$scope module dut $end"
LnUpscope == "$upscope $end"
LnVarQ == "$var wire 1 ! q $end"
LnVarV == "$var wire 2 & v [1:0] $end"
LnVarClk == "$var wire 1 % clk $end"
LnEndDefs == "$enddefinitions $end"
LnDumpvars == "$dumpvars"
LnEnd == "$end"
LnT100 == "#100000"
LnT400 == "#400000"
LnT700 == "#700000"
LnTBad == "#x"
LnXq == "x!"
Ln0q == "0!"
Ln1q == "1!"
Ln0Unknown == "0?"
LnVecV == "bx1 &"
LnVecUnknown == "b1 ?"
LnScopeTb == "$scope module tb $end"
LnVarQAgain == "$var reg 1 ! r $end"
LnVarNoEnd == "$var wire 1 ! q"
LnXclk == "x%"
LnNonBitQ == "U!"
LnVecShortV == "b1 &"
LnVarHuge == "$var wire 1...1 (MaxStrDigits + 1 digits) ! h $end"

\* the characters of each line
LineChars ==
    LnScopeDUT :>
        Str(<<"$", "s", "c", "o", "p", "e", " ", "m", "o", "d", "u", "l", "e", " ", "D", "U", "T", " ", "$", "e", "n", "d">>)
    @@
    LnScopeDutLower :>
        Str(<<"$", "s", "c", "o", "p", "e", " ", "m", "o", "d", "u", "l", "e", " ", "d", "u", "t", " ", "$", "e", "n", "d">>)
    @@
    LnUpscope :>
        Str(<<"$", "u", "p", "s", "c", "o", "p", "e", " ", "$", "e", "n", "d">>)
    @@
    LnVarQ :>
        Str(<<"$", "v", "a", "r", " ", "w", "i", "r", "e", " ", "1", " ", "!", " ", "q", " ", "$", "e", "n", "d">>)
    @@
    LnVarV :>
        Str(<<"$", "v", "a", "r", " ", "w", "i", "r", "e", " ", "2", " ", "&", " ", "v", " ", "[", "1", ":", "0", "]", " ", "$", "e", "n", "d">>)
    @@
    LnVarClk :>
        Str(<<"$", "v", "a", "r", " ", "w", "i", "r", "e", " ", "1", " ", "%", " ", "c", "l", "k", " ", "$", "e", "n", "d">>)
    @@
    LnEndDefs :>
        Str(<<"$", "e", "n", "d", "d", "e", "f", "i", "n", "i", "t", "i", "o", "n", "s", " ", "$", "e", "n", "d">>)
    @@
    LnDumpvars :>
        Str(<<"$", "d", "u", "m", "p", "v", "a", "r", "s">>)
    @@
    LnEnd :>
        Str(<<"$", "e", "n", "d">>)
    @@
    LnT100 :>
        Str(<<"#", "1", "0", "0", "0", "0", "0">>)
    @@
    LnT400 :>
        Str(<<"#", "4", "0", "0", "0", "0", "0">>)
    @@
    LnT700 :>
        Str(<<"#", "7", "0", "0", "0", "0", "0">>)
    @@
    LnTBad :>
        Str(<<"#", "x">>)
    @@
    LnXq :>
        Str(<<"x", "!">>)
    @@
    Ln0q :>
        Str(<<"0", "!">>)
    @@
    Ln1q :>
        Str(<<"1", "!">>)
    @@
    Ln0Unknown :>
        Str(<<"0", "?">>)
    @@
    LnVecV :>
        Str(<<"b", "x", "1", " ", "&">>)
    @@
    LnVecUnknown :>
        Str(<<"b", "1", " ", "?">>)
    @@
    LnScopeTb :>
        Str(<<"$", "s", "c", "o", "p", "e", " ", "m", "o", "d", "u", "l", "e", " ", "t", "b", " ", "$", "e", "n", "d">>)
    @@
    LnVarQAgain :>
        Str(<<"$", "v", "a", "r", " ", "r", "e", "g", " ", "1", " ", "!", " ", "r", " ", "$", "e", "n", "d">>)
    @@
    LnVarNoEnd :>
        Str(<<"$", "v", "a", "r", " ", "w", "i", "r", "e", " ", "1", " ", "!", " ", "q">>)
    @@
    LnXclk :>
        Str(<<"x", "%">>)
    @@
    LnNonBitQ :>
        Str(<<"U", "!">>)
    @@
    LnVecShortV :>
        Str(<<"b", "1", " ", "&">>)
    @@
    LnVarHuge :>
        Str(<<"$", "v", "a", "r", " ", "w", "i", "r", "e", " ">>)
        \o [i \in 1..(MaxStrDigits + 1) |-> Ord["1"]]
        \o Str(<<" ", "!", " ", "h", " ", "$", "e", "n", "d">>)

\* the str of a line
Text(line) == LineChars[line]

\* content.split('\n') of a file with these lines
TextOf(lines) == [i \in 1..Len(lines) |-> Text(lines[i])]

\* the longest body, in lines, of an enumerated dump
MaxBody == 4

HdrDUT == <<LnScopeDUT, LnVarQ, LnVarV, LnUpscope, LnVarClk, LnEndDefs>>

BodyPool == {LnT400, LnT100, LnXq, Ln0q, Ln0Unknown, LnVecV, LnVecUnknown}

Bodies == UNION {[1..n -> BodyPool] : n \in 0..MaxBody}

\* the end-to-end scenario: x at 0, 0 at 100000, x at 400000, 1 at 700000
ScenarioBody ==
    <<LnDumpvars, LnXq, LnEnd, LnT100, Ln0q, LnT400, LnXq, LnT700, Ln1q>>

ScenarioDUT == <<LnScopeDUT, LnVarQ, LnUpscope, LnEndDefs>> \o ScenarioBody

ScenarioDutLower == <<LnScopeDutLower, LnVarQ, LnUpscope, LnEndDefs>> \o ScenarioBody

\* a time marker int() raises on
DumpBadTime == HdrDUT \o <<LnT400, LnTBad, LnXq>>

\* a dump that declares no signal
DumpNoVars == <<LnEndDefs, LnT700>>

\* nested scopes, a scope closed before a declaration, an identifier declared twice
DumpNested ==
    <<LnScopeTb, LnVarClk, LnScopeDUT, LnVarQ, LnUpscope, LnVarV, LnVarQAgain,
      LnUpscope, LnEndDefs, LnT400, LnXq>>

\* a scope still open at $enddefinitions, and a declaration after it
DumpLateVar == <<LnScopeDUT, LnVarQ, LnEndDefs, LnVarClk, LnT400, LnXq, LnXclk>>

\* an $upscope with no scope open
DumpExtraUpscope == <<LnUpscope, LnScopeDUT, LnVarQ, LnUpscope, LnEndDefs, LnXq>>

\* a declaration with no $end
DumpNoEnd == <<LnVarNoEnd, LnEndDefs, LnXq>>

\* a scalar line whose first character is no bit
DumpNonBit == HdrDUT \o <<LnT400, LnNonBitQ>>

\* a one-bit vector value for the two-bit signal
DumpShortVec == HdrDUT \o <<LnT400, LnVecShortV>>

\* a declaration whose width has more digits than int() converts
DumpHugeWidth == <<LnScopeDUT, LnVarClk, LnVarHuge, LnUpscope, LnEndDefs, LnXclk>>

Dumps ==
    {HdrDUT \o b : b \in Bodies}
    \cup {ScenarioDUT, ScenarioDutLower, DumpBadTime, DumpNoVars}
    \cup {DumpNested, DumpLateVar, DumpExtraUpscope, DumpNoEnd, DumpNonBit,
          DumpShortVec, DumpHugeWidth}

\* the value of exit_code while main has not returned
NoExit == 0 - 1

(***************************************************************************)
(* Spec: one run of analyze_vcd_detailed and of the classification of      *)
(* check_test on one dump, a line or a signal at a time.                   *)
(***************************************************************************)
Init ==
    /\ content \in Dumps
    /\ pc = "header"
    /\ idx = 1
    /\ signals = <<>>
    /\ scope_stack = <<>>
    /\ current_time = 0
    /\ in_dumpvars = FALSE
    /\ x_at_init = <<>>
    /\ x_cleared = <<>>
    /\ x_persistent = <<>>
    /\ locals = <<>>
    /\ prog = "detailed"
    /\ fs = <<>>
    /\ produced = <<>>
    /\ results = <<>>
    /\ exit_code = NoExit

\* analyze_vcd_detailed, first loop: one line
HeaderLine ==
    /\ pc = "header"
    /\ idx <= Len(content)
    /\ LET st == HeaderStep([signals |-> signals, scope_stack |-> scope_stack,
                             raised |-> FALSE], Text(content[idx]))
       IN  IF st.raised
           THEN \* int() raises, nothing catches it: traceback, exit status 1
                /\ pc' = "crashed" /\ exit_code' = 1
                /\ UNCHANGED <<idx, signals, scope_stack, current_time, in_dumpvars>>
           ELSE /\ signals' = st.signals
                /\ scope_stack' = st.scope_stack
                /\ exit_code' = exit_code
                /\ IF idx = Len(content)
                   THEN \* current_time = 0; in_dumpvars = False
                        /\ pc' = "values" /\ idx' = 1
                        /\ current_time' = 0 /\ in_dumpvars' = FALSE
                   ELSE /\ pc' = pc /\ idx' = idx + 1
                        /\ UNCHANGED <<current_time, in_dumpvars>>
    /\ UNCHANGED <<content, x_at_init, x_cleared, x_persistent, locals>>
    /\ UNCHANGED <<prog, fs, produced, results>>

\* analyze_vcd_detailed, second loop: one line
ValueLine ==
    /\ pc = "values"
    /\ idx <= Len(content)
    /\ LET st == ValueStep([signals |-> signals, current_time |-> current_time,
                            in_dumpvars |-> in_dumpvars], Text(content[idx]))
       IN  /\ signals' = st.signals
           /\ current_time' = st.current_time
           /\ in_dumpvars' = st.in_dumpvars
    /\ IF idx = Len(content)
       THEN pc' = "check" /\ idx' = 1
       ELSE pc' = pc /\ idx' = idx + 1
    /\ UNCHANGED <<content, scope_stack, x_at_init, x_cleared, x_persistent, locals>>
    /\ UNCHANGED batchVars

\* check_test: if not signals: return {'error': True}
CheckSignals ==
    /\ pc = "check"
    /\ IF signals = <<>>
       THEN /\ pc' = "done" /\ results' = Append(results, ErrorResult)
            /\ UNCHANGED <<x_at_init, x_cleared, x_persistent, locals>>
       ELSE \* x_at_init = []; x_cleared = []; x_persistent = []
            /\ pc' = "classify" /\ results' = results
            /\ x_at_init' = <<>> /\ x_cleared' = <<>> /\ x_persistent' = <<>>
            /\ locals' = <<>>
    /\ UNCHANGED <<content, idx, signals, scope_stack, current_time, in_dumpvars>>
    /\ UNCHANGED <<prog, fs, produced, exit_code>>

\* check_test: one iteration of the loop over signals.items()
ClassifySignal ==
    /\ pc = "classify"
    /\ idx <= Len(signals)
    /\ LET acc == ClassifyStep([x_at_init |-> x_at_init, x_cleared |-> x_cleared,
                                x_persistent |-> x_persistent, locals |-> locals],
                               signals[idx])
       IN  /\ x_at_init' = acc.x_at_init
           /\ x_cleared' = acc.x_cleared
           /\ x_persistent' = acc.x_persistent
           /\ locals' = acc.locals
    /\ idx' = idx + 1
    /\ UNCHANGED <<content, pc, signals, scope_stack, current_time, in_dumpvars>>
    /\ UNCHANGED batchVars

\* check_test: the return after the loop
Return ==
    /\ pc = "classify"
    /\ idx > Len(signals)
    /\ pc' = "done"
    /\ results' = Append(results,
                         CheckResult([x_at_init |-> x_at_init, x_cleared |-> x_cleared,
                                      x_persistent |-> x_persistent]))
    /\ UNCHANGED <<content, idx, signals, scope_stack, current_time, in_dumpvars,
                   x_at_init, x_cleared, x_persistent, locals>>
    /\ UNCHANGED <<prog, fs, produced, exit_code>>

Next == HeaderLine \/ ValueLine \/ CheckSignals \/ ClassifySignal \/ Return

Spec == Init /\ [][Next]_vars

(***************************************************************************)
(* SpecHeader: the first loop of analyze_vcd_detailed on headers drawn     *)
(* from scope and declaration lines in any order.                          *)
(***************************************************************************)
\* the longest enumerated header, in lines
MaxHeader == 4

HeaderPool == {LnScopeTb, LnScopeDUT, LnUpscope, LnVarQ, LnVarClk, LnVarQAgain}

HeaderDumps ==
    UNION {[1..n -> HeaderPool] : n \in 1..MaxHeader}
    \cup {DumpNested, DumpLateVar, DumpExtraUpscope}

InitHeader ==
    /\ content \in HeaderDumps
    /\ pc = "header"
    /\ idx = 1
    /\ signals = <<>>
    /\ scope_stack = <<>>
    /\ current_time = 0
    /\ in_dumpvars = FALSE
    /\ x_at_init = <<>>
    /\ x_cleared = <<>>
    /\ x_persistent = <<>>
    /\ locals = <<>>
    /\ prog = "detailed"
    /\ fs = <<>>
    /\ produced = <<>>
    /\ results = <<>>
    /\ exit_code = NoExit

NextHeader == HeaderLine

SpecHeader == InitHeader /\ [][NextHeader]_vars

(***************************************************************************)
(* SpecClassify: the classification loop of check_test on a signals dict   *)
(* drawn from a bounded set of timelines.                                  *)
(***************************************************************************)
\* the longest timeline, in records, of an enumerated signal
MaxRecords == 3

NameDUTq == Str(<<"D", "U", "T", ".", "q">>)
NameTbClk == Str(<<"t", "b", ".", "c", "l", "k">>)

RecordTimes == {300000, 500000, 600000}

RecordValues == {Str(<<"x", "0">>), Str(<<"0">>), Str(<<"z">>), Str(<<"X">>), <<>>}

Records == [time : RecordTimes, value : RecordValues]

Timelines == UNION {[1..n -> Records] : n \in 0..MaxRecords}

\* a testbench signal that is X after reset release
ClkSignal ==
    [id |-> Str(<<"%">>), name |-> NameTbClk, width |-> 1,
     values |-> <<[time |-> 400000, value |-> Str(<<"x">>)]>>]

SignalTables ==
    {<<ClkSignal, [id |-> Str(<<"!">>), name |-> n, width |-> 1, values |-> tl]>> :
        n \in {NameDUTq, NameTbClk}, tl \in Timelines}

InitClassify ==
    /\ content = <<>>
    /\ pc = "classify"
    /\ idx = 1
    /\ signals \in SignalTables
    /\ scope_stack = <<>>
    /\ current_time = 0
    /\ in_dumpvars = FALSE
    /\ x_at_init = <<>>
    /\ x_cleared = <<>>
    /\ x_persistent = <<>>
    /\ locals = <<>>
    /\ prog = "detailed"
    /\ fs = <<>>
    /\ produced = <<>>
    /\ results = <<>>
    /\ exit_code = NoExit

NextClassify == ClassifySignal \/ Return

SpecClassify == InitClassify /\ [][NextClassify]_vars

(***************************************************************************)
(* SpecBatch: main of either script over the first NumTests entries of     *)
(* TESTS.  A file is [readable, lines]; fs is <<>> while no file is at     *)
(* build_dir/test_case_1.vcd and <<file>> otherwise.  The simulation run   *)
(* of a test (vvp) writes a file there or writes nothing.  The script      *)
(* waits in subprocess.run for make and for vvp; each wait ends a step.    *)
(***************************************************************************)
\* how many entries of TESTS a batch runs
NumTests == 3

DumpFile(lines) == [readable |-> TRUE, lines |-> lines]

\* a file that open() or read() raises on
UnreadableFile == [readable |-> FALSE, lines |-> <<>>]

DumpClean == HdrDUT \o <<Ln0q, LnT700, Ln1q>>

DumpLateX == HdrDUT \o <<Ln0q, LnT700, LnXq>>

\* what one simulation run leaves: <<>> (no dump written) or <<file>>
SimOutcomes ==
    {<<>>, <<UnreadableFile>>}
    \cup {<<DumpFile(d)>> : d \in {ScenarioDUT, ScenarioDutLower, DumpNoVars,
                                    DumpClean, DumpLateX}}

\* the file system after a simulation run with outcome out
AfterRun(file, out) == IF out = <<>> THEN file ELSE out

\* check_test from "if not signals" on, signals being sigs
CheckTestSignals(sigs) ==
    IF sigs = <<>> THEN ErrorResult
    ELSE CheckResult(ClassifyLoop([x_at_init |-> <<>>, x_cleared |-> <<>>,
                                   x_persistent |-> <<>>, locals |-> <<>>], sigs))

\* check_test after the simulation run, the dump path holding a readable file
\* or none (analyze_vcd_detailed returns None)
CheckTest(file) ==
    IF file = <<>> THEN ErrorResult
    ELSE CheckTestSignals(AnalyzeVcdDetailed(TextOf(file[1].lines)))

\* run_test_and_check after the simulation run: <<>> is None, <<x_signals>> a list
RunTestAndCheck(file) ==
    IF file = <<>> THEN <<>>
    ELSE <<FindXAfterReset(ParseVcd(TextOf(file[1].lines)), STATES_RESET_RELEASE)>>

\* the status main of check_x_states prints for one entry of all_results
StatesStatus(x_signals) ==
    IF x_signals = <<>> THEN "ERROR"
    ELSE IF Len(x_signals[1]) = 0 THEN "PASS"
    ELSE "WARN"

RECURSIVE TotalXSignals(_)
\* total_x_signals of main of check_x_states
TotalXSignals(all_results) ==
    IF all_results = <<>> THEN 0
    ELSE (IF all_results[1] # <<>> /\ all_results[1][1] # <<>>
          THEN Len(all_results[1][1]) ELSE 0)
         + TotalXSignals(Tail(all_results))

\* all_pass of main of check_x_detailed
AllPass(rs) == \A i \in 1..Len(rs) : ~rs[i].error /\ rs[i].x_persistent = <<>>

\* return 0 if all_pass else 1
DetailedExit(rs) == IF AllPass(rs) THEN 0 ELSE 1

\* return 0 if total_x_signals == 0 else 1
StatesExit(all_results) == IF TotalXSignals(all_results) = 0 THEN 0 ELSE 1

InitBatch ==
    /\ content = <<>>
    /\ pc = "main"
    /\ idx = 1
    /\ signals = <<>>
    /\ scope_stack = <<>>
    /\ current_time = 0
    /\ in_dumpvars = FALSE
    /\ x_at_init = <<>>
    /\ x_cleared = <<>>
    /\ x_persistent = <<>>
    /\ locals = <<>>
    /\ prog \in {"detailed", "states"}
    /\ fs = <<>>
    /\ produced = <<>>
    /\ results = <<>>
    /\ exit_code = NoExit

\* how subprocess.run(..., capture_output=True, text=True) ends: the program is
\* not found (FileNotFoundError, nothing has run), the program has run and its
\* output does not decode (UnicodeDecodeError), or it returns
RunEnds == {"missing", "undecodable", "returned"}

\* what make returns, once started
MakeOutcomes == {"ok", "failed"}

\* check_test: subprocess.run(["vvp", vvp_file], ...), to its return
DetailedRun ==
    /\ prog = "detailed"
    /\ pc = "main"
    /\ idx <= NumTests
    /\ \E vvp \in RunEnds :
          IF vvp = "missing"
          THEN \* FileNotFoundError, nothing catches it: traceback, exit status 1
               /\ pc' = "crashed"
               /\ exit_code' = 1
               /\ UNCHANGED <<fs, produced>>
          ELSE \E out \in SimOutcomes :
                  /\ fs' = AfterRun(fs, out)
                  /\ produced' = Append(produced, out)
                  /\ IF vvp = "undecodable"
                     THEN \* the simulation has run and written; UnicodeDecodeError,
                          \* nothing catches it: traceback, exit status 1
                          pc' = "crashed" /\ exit_code' = 1
                     ELSE pc' = "analyse" /\ UNCHANGED exit_code
    /\ UNCHANGED <<content, idx, signals, scope_stack, current_time, in_dumpvars,
                   x_at_init, x_cleared, x_persistent, locals, prog, results>>

\* check_test from analyze_vcd_detailed(vcd_file) on, and
\* results[test] = ... of main
DetailedAnalyse ==
    /\ prog = "detailed"
    /\ pc = "analyse"
    /\ IF fs # <<>> /\ (~fs[1].readable \/ AnalyzeRaises(TextOf(fs[1].lines)))
       THEN \* open() or int() raises, nothing catches it: traceback, exit status 1
            /\ pc' = "crashed"
            /\ exit_code' = 1
            /\ UNCHANGED <<idx, results>>
       ELSE /\ results' = Append(results, CheckTest(fs))
            /\ idx' = idx + 1
            /\ pc' = "main"
            /\ UNCHANGED exit_code
    /\ UNCHANGED <<content, signals, scope_stack, current_time, in_dumpvars,
                   x_at_init, x_cleared, x_persistent, locals, prog, fs, produced>>

\* check_x_detailed main: the final summary and the return
DetailedSummary ==
    /\ prog = "detailed"
    /\ pc = "main"
    /\ idx > NumTests
    /\ exit_code' = DetailedExit(results)
    /\ pc' = "exited"
    /\ UNCHANGED <<content, idx, signals, scope_stack, current_time, in_dumpvars,
                   x_at_init, x_cleared, x_persistent, locals, prog, fs, produced,
                   results>>

\* run_test_and_check: os.path.exists(vvp_file) and, if it does not,
\* subprocess.run(["make", ...], ...), to its return
StatesCompile ==
    /\ prog = "states"
    /\ pc = "main"
    /\ idx <= NumTests
    /\ \E vvp_exists \in BOOLEAN, make \in RunEnds, returned \in MakeOutcomes :
          IF vvp_exists
          THEN pc' = "run" /\ UNCHANGED exit_code
          ELSE IF make \in {"missing", "undecodable"}
          THEN \* FileNotFoundError or UnicodeDecodeError, nothing catches it:
               \* traceback, exit status 1; make writes no dump
               pc' = "crashed" /\ exit_code' = 1
          ELSE IF returned = "failed"
          THEN pc' = "compile_error" /\ UNCHANGED exit_code
          ELSE pc' = "run" /\ UNCHANGED exit_code
    /\ UNCHANGED <<content, idx, signals, scope_stack, current_time, in_dumpvars,
                   x_at_init, x_cleared, x_persistent, locals, prog, fs, produced,
                   results>>

\* run_test_and_check: if result.returncode != 0: return None, and
\* all_results[test] = x_signals of main; no simulation has run
StatesCompileError ==
    /\ prog = "states"
    /\ pc = "compile_error"
    /\ results' = Append(results, <<>>)
    /\ produced' = Append(produced, <<>>)
    /\ idx' = idx + 1
    /\ pc' = "main"
    /\ UNCHANGED <<content, signals, scope_stack, current_time, in_dumpvars,
                   x_at_init, x_cleared, x_persistent, locals, prog, fs, exit_code>>

\* run_test_and_check: subprocess.run(["vvp", vvp_file], ...), to its return
StatesRun ==
    /\ prog = "states"
    /\ pc = "run"
    /\ \E vvp \in RunEnds :
          IF vvp = "missing"
          THEN \* FileNotFoundError, nothing catches it: traceback, exit status 1
               /\ pc' = "crashed"
               /\ exit_code' = 1
               /\ UNCHANGED <<fs, produced>>
          ELSE \E out \in SimOutcomes :
                  /\ fs' = AfterRun(fs, out)
                  /\ produced' = Append(produced, out)
                  /\ IF vvp = "undecodable"
                     THEN \* the simulation has run and written; UnicodeDecodeError,
                          \* nothing catches it: traceback, exit status 1
                          pc' = "crashed" /\ exit_code' = 1
                     ELSE pc' = "analyse" /\ UNCHANGED exit_code
    /\ UNCHANGED <<content, idx, signals, scope_stack, current_time, in_dumpvars,
                   x_at_init, x_cleared, x_persistent, locals, prog, results>>

\* run_test_and_check from os.path.exists(vcd_file) on, and
\* all_results[test] = x_signals of main
StatesAnalyse ==
    /\ prog = "states"
    /\ pc = "analyse"
    /\ IF fs # <<>> /\ ~fs[1].readable
       THEN \* open() raises, nothing catches it: traceback, exit status 1
            /\ pc' = "crashed"
            /\ exit_code' = 1
            /\ UNCHANGED <<idx, results>>
       ELSE /\ results' = Append(results, RunTestAndCheck(fs))
            /\ idx' = idx + 1
            /\ pc' = "main"
            /\ UNCHANGED exit_code
    /\ UNCHANGED <<content, signals, scope_stack, current_time, in_dumpvars,
                   x_at_init, x_cleared, x_persistent, locals, prog, fs, produced>>

\* check_x_states main: the summary and the return
StatesSummary ==
    /\ prog = "states"
    /\ pc = "main"
    /\ idx > NumTests
    /\ exit_code' = StatesExit(results)
    /\ pc' = "exited"
    /\ UNCHANGED <<content, idx, signals, scope_stack, current_time, in_dumpvars,
                   x_at_init, x_cleared, x_persistent, locals, prog, fs, produced,
                   results>>

NextBatch ==
    \/ DetailedRun \/ DetailedAnalyse \/ DetailedSummary
    \/ StatesCompile \/ StatesCompileError \/ StatesRun \/ StatesAnalyse
    \/ StatesSummary

SpecBatch == InitBatch /\ [][NextBatch]_vars

(***************************************************************************)
(* SpecRerun: main of check_x_detailed over the first MaxRuns entries of   *)
(* TESTS, check_test a line and a signal at a time.  Every call runs the   *)
(* simulation, which rewrites the shared dump file or leaves it as it is,   *)
(* and then analyses the file at the dump path, so that a call finds what   *)
(* the call before it left in scope_stack, current_time and the lists.      *)
(***************************************************************************)
\* the number of calls of check_test
MaxRuns == 2

RerunDumps ==
    {ScenarioDUT, ScenarioDutLower, DumpBadTime, DumpNoVars, DumpNested,
     DumpLateVar, DumpExtraUpscope, DumpNoEnd, DumpShortVec, DumpHugeWidth,
     DumpClean, DumpLateX}

\* what one simulation run leaves: <<>> (no dump written) or <<file>>
RerunOutcomes == {<<>>, <<UnreadableFile>>} \cup {<<DumpFile(d)>> : d \in RerunDumps}

InitRerun ==
    /\ content = <<>>
    /\ pc = "main"
    /\ idx = 1
    /\ signals = <<>>
    /\ scope_stack = <<>>
    /\ current_time = 0
    /\ in_dumpvars = FALSE
    /\ x_at_init = <<>>
    /\ x_cleared = <<>>
    /\ x_persistent = <<>>
    /\ locals = <<>>
    /\ prog = "detailed"
    /\ fs = <<>>
    /\ produced = <<>>
    /\ results = <<>>
    /\ exit_code = NoExit

\* main: the next check_test(test); check_test:
\* subprocess.run(["vvp", vvp_file], ...), to its return
RunSimulation ==
    /\ pc \in {"main", "done"}
    /\ Len(results) < MaxRuns
    /\ \E vvp \in RunEnds :
          IF vvp = "missing"
          THEN \* FileNotFoundError, nothing catches it: traceback, exit status 1
               /\ pc' = "crashed"
               /\ exit_code' = 1
               /\ UNCHANGED <<fs, produced>>
          ELSE \E out \in RerunOutcomes :
                  /\ fs' = AfterRun(fs, out)
                  /\ produced' = Append(produced, out)
                  /\ IF vvp = "undecodable"
                     THEN \* the simulation has run and written; UnicodeDecodeError,
                          \* nothing catches it: traceback, exit status 1
                          pc' = "crashed" /\ exit_code' = 1
                     ELSE pc' = "open" /\ UNCHANGED exit_code
    /\ UNCHANGED <<content, idx, signals, scope_stack, current_time, in_dumpvars,
                   x_at_init, x_cleared, x_persistent, locals, prog, results>>

\* Reanalyze with scope_stack a name that outlives the call
ReanalyzeKeepScopes ==
    /\ pc = "open"
    /\ IF fs = <<>>
       THEN /\ signals' = <<>>
            /\ pc' = "check"
            /\ UNCHANGED <<content, idx, scope_stack, exit_code>>
       ELSE IF ~fs[1].readable
       THEN /\ pc' = "crashed"
            /\ exit_code' = 1
            /\ UNCHANGED <<content, idx, signals, scope_stack>>
       ELSE /\ content' = fs[1].lines
            /\ signals' = <<>>
            /\ idx' = 1
            /\ pc' = "header"
            /\ UNCHANGED <<scope_stack, exit_code>>
    /\ UNCHANGED <<current_time, in_dumpvars, x_at_init, x_cleared, x_persistent,
                   locals, prog, fs, produced, results>>

\* analyze_vcd_detailed(vcd_file) up to its first loop: return None if the
\* file does not exist (signals then is falsy in check_test, as {} is);
\* content = f.read(); signals = {}; scope_stack = []
Reanalyze ==
    /\ pc = "open"
    /\ IF fs = <<>>
       THEN /\ signals' = <<>>
            /\ pc' = "check"
            /\ UNCHANGED <<content, idx, scope_stack, exit_code>>
       ELSE IF ~fs[1].readable
       THEN \* open() or read() raises, nothing catches it: traceback, exit status 1
            /\ pc' = "crashed"
            /\ exit_code' = 1
            /\ UNCHANGED <<content, idx, signals, scope_stack>>
       ELSE /\ content' = fs[1].lines
            /\ signals' = <<>>
            /\ scope_stack' = <<>>
            /\ idx' = 1
            /\ pc' = "header"
            /\ UNCHANGED exit_code
    /\ UNCHANGED <<current_time, in_dumpvars, x_at_init, x_cleared, x_persistent,
                   locals, prog, fs, produced, results>>

NextRerun ==
    \/ RunSimulation \/ Reanalyze
    \/ HeaderLine \/ ValueLine \/ CheckSignals \/ ClassifySignal \/ Return

SpecRerun == InitRerun /\ [][NextRerun]_vars

(***************************************************************************)
(* The claims.                                                             *)
(***************************************************************************)
UnknownChars == Range(Str(<<"x", "X", "z", "Z">>))

XChars == Range(Str(<<"x", "X">>))

HasAnyChar(val, chars) == \E i \in 1..Len(val) : val[i] \in chars

AsyncFifoSmall == Str(<<"a", "s", "y", "n", "c", "_", "f", "i", "f", "o">>)

AsyncFifoCapital == Str(<<"A", "S", "Y", "N", "C", "_", "F", "I", "F", "O">>)

\* the name holds "DUT", or "async_fifo" in any letter case
PassesFilter(name) ==
    \/ \E i \in 1..(Len(name) - 2) :
          SubSeq(name, i, i + 2) = Str(<<"D", "U", "T">>)
    \/ \E i \in 1..(Len(name) - 9) :
          \A k \in 0..9 : name[i + k] \in {AsyncFifoSmall[k + 1], AsyncFifoCapital[k + 1]}

Classifying == pc \in {"classify", "done"}

\* the signals the classification loop has been through
Processed == SubSeq(signals, 1, idx - 1)

\* the signal is classified: it has a record and passes the filter
Included(s) == s.values # <<>> /\ PassesFilter(s.name)

Ids(sigs) == {sigs[i].id : i \in 1..Len(sigs)}

NamesOf(sel) == [i \in 1..Len(sel) |-> sel[i].name]

\* the positions of the records of values that satisfy: stamped after t (at t
\* too, if orEqual), with a character of chars in the value
XAfter(values, t, orEqual, chars) ==
    {i \in 1..Len(values) :
        /\ (values[i].time > t \/ (orEqual /\ values[i].time = t))
        /\ HasAnyChar(values[i].value, chars)}

MinOf(S) == CHOOSE i \in S : \A j \in S : i <= j

\* C1: every signal's timeline has timestamps that are non-decreasing in
\* record order, whatever lines were parsed (time markers going backwards
\* included).
C1_TimelinesNonDecreasing ==
    \A k \in 1..Len(signals) :
        \A i \in 1..(Len(signals[k].values) - 1) :
            signals[k].values[i].time <= signals[k].values[i + 1].time

\* C2: for every classified signal the report holds the first record, in
\* timestamp order, that is stamped strictly after RESET_RELEASE and whose
\* value holds one of x, X, z, Z, with its timestamp and its value; no entry
\* if there is no such record, at most one entry per signal.
C2_FirstXAfterRelease ==
    Classifying =>
        LET Hits(s) == XAfter(s.values, RESET_RELEASE, FALSE, UnknownChars)
            Hit(s) == Included(s) /\ Hits(s) # {}
            First(s) ==
                s.values[CHOOSE i \in Hits(s) : \A j \in Hits(s) :
                             \/ s.values[i].time < s.values[j].time
                             \/ s.values[i].time = s.values[j].time /\ i <= j]
            sel == SelectSeq(Processed, Hit)
        IN  x_persistent = [i \in 1..Len(sel) |->
                               [name |-> sel[i].name, time |-> First(sel[i]).time,
                                value |-> First(sel[i]).value]]

\* C3 as stated: for every classified signal, X-at-init is reported iff the
\* value of its first record holds one of x, X, z, Z.
C3_Original ==
    Classifying =>
        LET Hit(s) == Included(s) /\ HasAnyChar(s.values[1].value, UnknownChars)
        IN  x_at_init = NamesOf(SelectSeq(Processed, Hit))

\* C3 (amended): for every classified signal, X-at-init is reported iff the
\* value of the first record of its timeline holds x or X (z and Z do not
\* count).
C3_HasXAtInit ==
    Classifying =>
        LET Hit(s) == Included(s) /\ HasAnyChar(s.values[1].value, XChars)
        IN  x_at_init = NamesOf(SelectSeq(Processed, Hit))

\* C3 witness: a classified signal whose first value is X is reported.
C3_Witness ==
    /\ pc = "done"
    /\ signals[2].values # <<>>
    /\ signals[2].values[1].value = Str(<<"X">>)
    /\ x_at_init = <<NameDUTq>>

\* C4 as stated: a classified signal is reported as cleared iff it is X at
\* init (one of x, X, z, Z in its first value), has a record stamped after
\* POST_RESET, and the earliest such record holds none of x, X, z, Z (no
\* value being empty).
C4_Original ==
    (Classifying /\ \A k \in 1..Len(signals) : \A i \in 1..Len(signals[k].values) :
                       signals[k].values[i].value # <<>>) =>
        LET After(s) == {i \in 1..Len(s.values) : s.values[i].time > POST_RESET}
            Hit(s) == /\ Included(s)
                      /\ HasAnyChar(s.values[1].value, UnknownChars)
                      /\ After(s) # {}
                      /\ ~HasAnyChar(s.values[MinOf(After(s))].value, UnknownChars)
        IN  x_cleared = NamesOf(SelectSeq(Processed, Hit))

\* C4 (amended): a classified signal is reported as cleared iff its first
\* record holds x or X, it has a record stamped after POST_RESET, and the
\* first such record, in record order, has a non-empty value without x or X
\* (z and Z do not count as unknown).
C4_XCleared ==
    Classifying =>
        LET After(s) == {i \in 1..Len(s.values) : s.values[i].time > POST_RESET}
            Hit(s) == /\ Included(s)
                      /\ HasAnyChar(s.values[1].value, XChars)
                      /\ After(s) # {}
                      /\ s.values[MinOf(After(s))].value # <<>>
                      /\ ~HasAnyChar(s.values[MinOf(After(s))].value, XChars)
        IN  x_cleared = NamesOf(SelectSeq(Processed, Hit))

\* C4 witness: X at init, 0 as the first value after POST_RESET: cleared.
C4_Witness ==
    /\ pc = "done"
    /\ signals[2].values = <<[time |-> 300000, value |-> Str(<<"x", "0">>)],
                             [time |-> 500000, value |-> Str(<<"X">>)],
                             [time |-> 600000, value |-> Str(<<"0">>)]>>
    /\ x_cleared = <<NameDUTq>>

\* the scenario's signal passes the filter of check_test
ScenarioMatched ==
    /\ content \in {ScenarioDUT, ScenarioDutLower}
    /\ pc = "done"
    /\ \E k \in 1..Len(signals) : PassesFilter(signals[k].name)

\* C5 as stated: the scenario gives hasXAtInit, not xClearedByPostReset, the
\* persistent X at 400000 and status Fail.
C5_Original ==
    ScenarioMatched =>
        /\ Len(x_at_init) = 1
        /\ Len(x_cleared) = 0
        /\ Len(x_persistent) = 1 /\ x_persistent[1].time = 400000
        /\ DetailedStatus(results[1]) = "FAIL"

\* C5 (amended): the scenario, under a scope the filter of check_test matches
\* (DUT), gives hasXAtInit, xClearedByPostReset (the first record after
\* POST_RESET is 1), the persistent X at 400000 and status Fail.
C5_Scenario ==
    ScenarioMatched =>
        /\ content = ScenarioDUT
        /\ signals = <<[id |-> Str(<<"!">>), name |-> NameDUTq, width |-> 1,
                        values |-> <<[time |-> 0, value |-> Str(<<"x">>)],
                                     [time |-> 100000, value |-> Str(<<"0">>)],
                                     [time |-> 400000, value |-> Str(<<"x">>)],
                                     [time |-> 700000, value |-> Str(<<"1">>)]>>]>>
        /\ x_at_init = <<NameDUTq>>
        /\ x_cleared = <<NameDUTq>>
        /\ x_persistent = <<[name |-> NameDUTq, time |-> 400000]>>
        /\ results = <<[error |-> FALSE, x_at_init |-> 1, x_cleared |-> 1,
                        x_persistent |-> x_persistent]>>
        /\ DetailedStatus(results[1]) = "FAIL"

\* C5 witness: the scenario has been parsed and classified.
C5_Witness == ScenarioMatched /\ content = ScenarioDUT /\ Len(results) = 1

\* C6: a signal that fails the filter contributes to none of x_at_init,
\* x_cleared, x_persistent: the three lists are those of the same signals with
\* the failing ones taken out, so the status is too.
C6_FilteredOut ==
    Classifying =>
        LET Passes(s) == PassesFilter(s.name)
            r == ClassifyLoop([x_at_init |-> <<>>, x_cleared |-> <<>>,
                               x_persistent |-> <<>>, locals |-> <<>>],
                              SelectSeq(Processed, Passes))
        IN  /\ x_at_init = r.x_at_init
            /\ x_cleared = r.x_cleared
            /\ x_persistent = r.x_persistent
            /\ \A i \in 1..Len(x_persistent) : PassesFilter(x_persistent[i].name)
            /\ \A i \in 1..Len(x_at_init) : PassesFilter(x_at_init[i])
            /\ \A i \in 1..Len(x_cleared) : PassesFilter(x_cleared[i])
            /\ (pc = "done" /\ results # <<>> /\ SelectSeq(Processed, Passes) = <<>>)
                   => DetailedStatus(results[1]) = "PASS"

\* C6 witness: two signals that fail the filter, X at init and X after reset
\* release, and a report with nothing in it.
C6_Witness ==
    /\ pc = "done"
    /\ signals[2].name = NameTbClk
    /\ signals[2].values = <<[time |-> 300000, value |-> Str(<<"x", "0">>)],
                             [time |-> 600000, value |-> Str(<<"X">>)]>>
    /\ x_at_init = <<>> /\ x_cleared = <<>> /\ x_persistent = <<>>
    /\ DetailedStatus(results[1]) = "PASS"

\* the line is a value-change record, scalar or vector, whose identifier is
\* not a key of sigs
UnknownIdChange(raw, sigs) ==
    LET line == Strip(raw)
        words == Split(line)
    IN  /\ line # <<>>
        /\ \/ /\ line[1] \in Range(Str(<<"b", "B">>))
              /\ Len(words) >= 2
              /\ words[2] \notin Ids(sigs)
           \/ /\ line[1] \in Range(Str(<<"0", "1", "x", "z", "X", "Z">>))
              /\ Len(line) >= 2
              /\ Tail(line) \notin Ids(sigs)

\* C10: the second loop drops a value-change record whose identifier is not
\* in the signal table: the table, every timeline and the current time stay
\* as they are, and the loop goes on to the next line (or ends after the last).
C10_UnknownIdDropped ==
    [][(pc = "values" /\ UnknownIdChange(Text(content[idx]), signals)) =>
          /\ signals' = signals
          /\ current_time' = current_time
          /\ in_dumpvars' = in_dumpvars
          /\ \/ pc' = "values" /\ idx' = idx + 1
             \/ idx = Len(content) /\ pc' = "check"]_vars

\* C10 witness: after x! at time 0 and a time marker, records of an unknown
\* identifier, scalar and vector, have been gone through to the end of the
\* dump; the table and the one timeline are as they were.
C10_Witness ==
    /\ pc = "check"
    /\ content = HdrDUT \o <<LnXq, LnT400, Ln0Unknown, LnVecUnknown>>
    /\ current_time = 400000
    /\ Len(signals) = 3
    /\ signals[1].values = <<[time |-> 0, value |-> Str(<<"x">>)]>>
    /\ signals[2].values = <<>> /\ signals[3].values = <<>>

\* the file at the dump path when test i was analysed: what the last
\* simulation run that wrote one left there, <<>> if none did
FileAt(i) ==
    LET wrote == {j \in 1..i : produced[j] # <<>>}
    IN  IF wrote = {} THEN <<>>
        ELSE produced[CHOOSE j \in wrote : \A k \in wrote : j >= k]

\* the status the final summary prints for test i
StatusOf(i) ==
    IF prog = "detailed" THEN DetailedStatus(results[i]) ELSE StatesStatus(results[i])

\* C7: a test's status is Error exactly when no timeline could be produced
\* (no dump, or an unreadable one), otherwise Fail exactly when its
\* persistent list is non-empty, otherwise Pass.
C7_StatusOfTest ==
    prog = "detailed" =>
        \A i \in 1..Len(results) :
            /\ (StatusOf(i) = "ERROR") <=> (FileAt(i) = <<>>)
            /\ (StatusOf(i) = "FAIL") <=>
                   (FileAt(i) # <<>> /\ results[i].x_persistent # <<>>)

\* C8: the exit code is 0 iff every test's status is Pass.
C8_ExitCode ==
    pc = "exited" =>
        ((exit_code = 0) <=> (\A i \in 1..Len(results) : StatusOf(i) = "PASS"))

\* C9: a test whose own simulation run wrote no dump gets status Error.
C9_NoDumpIsError ==
    \A i \in 1..Len(results) : produced[i] = <<>> => StatusOf(i) = "ERROR"

\* the first loop of the parser is over
HeaderDone == pc \in {"values", "check", "classify", "done"}

\* the words of a dump line
Words(line) == Split(Text(line))

\* the line declares a signal: $var, a kind, a width, an identifier, a name
IsVarDecl(line) ==
    LET w == Words(line)
    IN  /\ Len(w) >= 5
        /\ w[1] = KwVar
        /\ \A c \in Range(w[2]) : IsWord(c)
        /\ \A c \in Range(w[3]) : IsDigit(c)

DeclId(line) == Words(line)[4]

DeclName(line) == Words(line)[5]

\* the positions of the lines before the first $enddefinitions
BeforeHeaderEnd(lines) ==
    {i \in 1..Len(lines) : \A j \in 1..i : lines[j] # LnEndDefs}

\* C11: once the header has been read, the signal table has one entry per
\* distinct identifier declared by a $var line before $enddefinitions: a
\* repeated identifier adds no entry and nothing after $enddefinitions adds one.
C11_TableCount ==
    HeaderDone =>
        /\ Cardinality(Ids(signals)) = Len(signals)
        /\ Len(signals) =
               Cardinality({DeclId(content[i]) :
                               i \in {j \in BeforeHeaderEnd(content) :
                                         IsVarDecl(content[j])}})

\* the characters of a value
BitChars == Range(Str(<<"0", "1", "x", "z", "X", "Z">>))

\* C12: every stored value consists solely of the characters 0, 1, x, z, X, Z:
\* a line of no recognised shape changes no timeline.
C12_ValuesAreBits ==
    \A k \in 1..Len(signals) : \A i \in 1..Len(signals[k].values) :
        Range(signals[k].values[i].value) \subseteq BitChars

\* C14: the current time starts at 0 and never decreases while the value
\* changes are read: a time marker smaller than the current time is ignored.
C14_TimeNeverDecreases ==
    /\ pc = "values" /\ idx = 1 => current_time = 0
    /\ pc = "values" /\ idx > 1 =>
           \A j \in 1..(idx - 1) :
               LET t == PyInt(From(Strip(Text(content[j])), 1))
               IN  StartsWith(Strip(Text(content[j])), Str(<<"#">>)) /\ t.ok =>
                       current_time >= t.val

\* the timeline of the signal with this identifier
ValuesOfId(id) == signals[CHOOSE k \in 1..Len(signals) : signals[k].id = id].values

\* C15: both thresholds count as "before": a record stamped exactly at the
\* reset release time is never the one reported as X after reset, by either
\* script, and a record stamped exactly at the post-reset time is never the
\* first record after post-reset.
C15_BoundariesAreBefore ==
    Classifying =>
        /\ \A i \in 1..Len(x_persistent) : x_persistent[i].time > RESET_RELEASE
        /\ \A i \in 1..Len(locals) :
               (\A j \in 1..Len(ValuesOfId(locals[i].sig_id)) :
                    ValuesOfId(locals[i].sig_id)[j].time <= POST_RESET)
               => locals[i].first_after_reset = <<>>
        /\ pc = "done" =>
               LET found == FindXAfterReset(signals, STATES_RESET_RELEASE)
               IN  \A i \in 1..Len(found) : found[i].time > STATES_RESET_RELEASE

\* C16: a dump that was read and in which no signal is classified (none
\* declared, none passing the filter, or none with a record) is no error:
\* the result has all counts zero, an empty persistent list and status Pass.
C16_EmptyResultPasses ==
    pc = "done" /\ (\A k \in 1..Len(signals) : ~Included(signals[k])) =>
        LET r == results[Len(results)]
        IN  /\ ~r.error
            /\ r.x_at_init = 0 /\ r.x_cleared = 0 /\ r.x_persistent = <<>>
            /\ DetailedStatus(r) = "PASS"

\* the line opens a scope and names it
ScopeOpens(line) == StartsWith(Strip(Text(line)), KwScope) /\ Len(Words(line)) >= 3

ScopeCloses(line) == StartsWith(Strip(Text(line)), KwUpscope)

\* the positions before line j of the scopes opened and not closed before it:
\* after such a line there are, up to any line before j, no more closes than opens
OpenScopes(lines, j) ==
    {i \in 1..(j - 1) :
        /\ ScopeOpens(lines[i])
        /\ \A k \in (i + 1)..(j - 1) :
               Cardinality({m \in (i + 1)..k : ScopeCloses(lines[m])})
                   <= Cardinality({m \in (i + 1)..k : ScopeOpens(lines[m])})}

\* a set of positions, in increasing order
InOrder(S) ==
    [n \in 1..Cardinality(S) |->
        CHOOSE i \in S : Cardinality({m \in S : m < i}) = n - 1]

\* the names of the scopes open at line j, outermost first, then the declared
\* name, joined by "."
QualifiedName(lines, j) ==
    LET open == InOrder(OpenScopes(lines, j))
    IN  JoinDot([n \in 1..Len(open) |-> Words(lines[open[n]])[3]]
                \o <<DeclName(lines[j])>>)

MaxOf(S) == CHOOSE i \in S : \A j \in S : i >= j

\* C17: the name of every signal in the table is the names of the scopes open
\* at its (last) declaration, outermost first, followed by the declared name,
\* joined by "."; a scope closed before the declaration is not in the name.
C17_QualifiedNames ==
    LET n == IF pc \in {"header", "crashed"} THEN idx - 1 ELSE Len(content)
    IN  \A k \in 1..Len(signals) :
            LET decls == {j \in 1..n : /\ IsVarDecl(content[j])
                                       /\ DeclId(content[j]) = signals[k].id}
            IN  /\ decls # {}
                /\ signals[k].name = QualifiedName(content, MaxOf(decls))

\* C17 witness: in the nested dump, after the declaration of v: clk declared
\* in tb, q in DUT inside tb, v in tb after DUT was closed.
C17_Witness ==
    /\ content = DumpNested
    /\ pc = "header"
    /\ idx = 7
    /\ scope_stack = <<Str(<<"t", "b">>)>>
    /\ NamesOf(signals) = << Str(<<"t", "b", ".", "c", "l", "k">>),
                             Str(<<"t", "b", ".", "D", "U", "T", ".", "q">>),
                             Str(<<"t", "b", ".", "v">>) >>

\* C18: unbalanced scopes never leak: after an $upscope read with no scope
\* open the stack is empty, and after $enddefinitions the stack is empty
\* even if scopes were still open.
C18_ScopesNeverLeak ==
    LET n == IF pc \in {"header", "crashed"} THEN idx - 1 ELSE Len(content)
    IN  n >= 1 =>
            /\ ScopeCloses(content[n]) /\ OpenScopes(content, n) = {} =>
                   scope_stack = <<>>
            /\ content[n] = LnEndDefs => scope_stack = <<>>

\* the positions of the declarations in lines, those of id if id is given
\* as <<id>>, all of them if it is <<>>
DeclsOf(lines, id) ==
    {j \in 1..Len(lines) :
        IsVarDecl(lines[j]) /\ (id = <<>> \/ DeclId(lines[j]) = id[1])}

\* the value-change record line j holds, as <<[id, value]>>; <<>> if it holds
\* none: a vector is b or B, the bits, white space, the identifier; a scalar
\* is one character and the identifier
ChangeAt(lines, j) ==
    LET line == Strip(Text(lines[j]))
    IN  IF line = <<>> \/ line[1] \in Range(Str(<<"#", "$">>)) THEN <<>>
        ELSE IF line[1] \in Range(Str(<<"b", "B">>))
        THEN IF Len(Words(lines[j])) >= 2
             THEN <<[id |-> Words(lines[j])[2], value |-> Tail(Words(lines[j])[1])]>>
             ELSE <<>>
        ELSE IF Len(line) >= 2
        THEN <<[id |-> Tail(line), value |-> <<line[1]>>]>>
        ELSE <<>>

\* the time in force at line j: that of the last time marker before it with
\* a number int() converts, 0 if there is none
TimeAt(lines, j) ==
    LET Marker(k) == LET line == Strip(Text(lines[k]))
                     IN  line # <<>> /\ line[1] = Ord["#"] /\ PyInt(Tail(line)).ok
        marks == {k \in 1..(j - 1) : Marker(k)}
    IN  IF marks = {} THEN 0
        ELSE PyInt(Tail(Strip(Text(lines[MaxOf(marks)])))).val

\* the signal table a dump stands for: one entry per declared identifier, in
\* the order of the first declarations, with the qualified name and the width
\* of its last declaration and, as timeline, the records of the identifier
\* in the order of their lines, each with the time in force at its line
TableOfDump(lines) ==
    LET all == DeclsOf(lines, <<>>)
        firsts == InOrder({j \in all : \A k \in all :
                              k < j => DeclId(lines[k]) # DeclId(lines[j])})
        Entry(f) ==
            LET id == DeclId(lines[f])
                last == MaxOf(DeclsOf(lines, <<id>>))
                changes == InOrder({j \in 1..Len(lines) :
                                       /\ ChangeAt(lines, j) # <<>>
                                       /\ ChangeAt(lines, j)[1].id = id})
            IN  [id |-> id,
                 name |-> QualifiedName(lines, last),
                 width |-> PyInt(Words(lines[last])[3]).val,
                 values |-> [n \in 1..Len(changes) |->
                                [time |-> TimeAt(lines, changes[n]),
                                 value |-> ChangeAt(lines, changes[n])[1].value]]]
    IN  [n \in 1..Len(firsts) |-> Entry(firsts[n])]

\* the result a signal table stands for: an error for an empty table, else
\* the counts and the persistent list of its classified signals
ResultOfTable(sigs) ==
    LET After(s) == {i \in 1..Len(s.values) : s.values[i].time > POST_RESET}
        AtInit(s) == Included(s) /\ HasAnyChar(s.values[1].value, XChars)
        Cleared(s) == /\ AtInit(s)
                      /\ After(s) # {}
                      /\ s.values[MinOf(After(s))].value # <<>>
                      /\ ~HasAnyChar(s.values[MinOf(After(s))].value, XChars)
        Post(s) == XAfter(s.values, RESET_RELEASE, FALSE, XChars)
        Persists(s) == Included(s) /\ Post(s) # {}
        sel == SelectSeq(sigs, Persists)
    IN  IF sigs = <<>>
        THEN [error |-> TRUE, x_at_init |-> 0, x_cleared |-> 0, x_persistent |-> <<>>]
        ELSE [error |-> FALSE,
              x_at_init |-> Len(SelectSeq(sigs, AtInit)),
              x_cleared |-> Len(SelectSeq(sigs, Cleared)),
              x_persistent |->
                  [i \in 1..Len(sel) |->
                      [name |-> sel[i].name,
                       time |-> sel[i].values[MinOf(Post(sel[i]))].time]]]

\* the result the file at the dump path stands for; <<>> is no file
ResultOfFile(file) ==
    ResultOfTable(IF file = <<>> THEN <<>> ELSE TableOfDump(file[1].lines))

\* C13: analysing the same dump again gives the same signal table, the same
\* timelines and the same classification, and nothing of an earlier call is
\* in a later one: whatever the calls before it analysed and left behind,
\* every call ends its parse with the table its dump alone stands for and
\* returns the result that table alone stands for, so that two calls on the
\* same dump return equal results.
C13_Idempotent ==
    /\ pc = "check" =>
           signals = (IF fs = <<>> THEN <<>> ELSE TableOfDump(fs[1].lines))
    /\ pc = "done" =>
           /\ \A i \in 1..Len(results) : results[i] = ResultOfFile(FileAt(i))
           /\ \A i, j \in 1..Len(results) :
                  FileAt(i) = FileAt(j) => results[i] = results[j]

\* C13 witness: a dump that leaves a scope open, a time other than 0 and a
\* non-empty persistent list behind has been analysed twice, the second
\* simulation run having left it as it was.
C13_Witness ==
    /\ pc = "done"
    /\ produced = <<<<DumpFile(DumpLateVar)>>, <<>>>>
    /\ Len(results) = 2
    /\ scope_stack # <<>>
    /\ current_time = 400000
    /\ Len(results[2].x_persistent) = 2

\* C19: every record's value has the length its signal's width gives: 1 for
\* a scalar, the width for a vector.
C19_ValueLengthIsWidth ==
    \A k \in 1..Len(signals) : \A i \in 1..Len(signals[k].values) :
        Len(signals[k].values[i].value) = signals[k].width

\* the dump is well formed: a line that holds $var is one declaration, from
\* $var to a closing $end, with a kind, a width, an identifier and a name
WellFormedDecls(lines) ==
    \A i \in 1..Len(lines) :
        Contains(Text(lines[i]), KwVar) =>
            LET w == Words(lines[i])
            IN  /\ IsVarDecl(lines[i])
                /\ Len(w) >= 6
                /\ w[Len(w)] = KwEnd
                /\ \A n \in 2..Len(w) : ~Contains(w[n], KwVar)

\* C20: on a well-formed dump analyze_vcd_detailed returns a table, as
\* parse_vcd does, and the two give the same set of identifiers and, for each
\* identifier, the same records in the same order.
C20_ParsersAgree ==
    (pc \in {"check", "crashed"} /\ WellFormedDecls(content)) =>
        /\ pc = "check"
        /\ LET d == ParseVcd(TextOf(content))
           IN  /\ Ids(d) = Ids(signals)
               /\ \A k \in 1..Len(signals) : \A j \in 1..Len(d) :
                      d[j].id = signals[k].id => d[j].values = signals[k].values

====
